---- MODULE Spec2Model ----
(***************************************************************************)
(* Model of the ndf ingestion pipeline (src/ingest.py) and of the          *)
(* disk-vs-index reconciliation of the API (src/api/main.py, /api/stats).  *)
(*                                                                         *)
(* Strings the code inspects character by character (file names, path     *)
(* segments, titles) are sequences of one-character strings, so that       *)
(* suffix, stem, lower, strip and startswith are computed, not assumed.    *)
(* A path is the sequence of its segments.                                 *)
(***************************************************************************)
EXTENDS Integers, Sequences, FiniteSets, TLC

(***************************************************************************)
(* Bounds of the model.                                                    *)
(***************************************************************************)

MaxFiles == 2
MaxCount == 3
MaxQueue == 2
MaxCreated == 1
MaxWrites == 1
MaxRuns == 2

(***************************************************************************)
(* Program constants.                                                      *)
(***************************************************************************)
MAX_ATTEMPTS == 5
\* The default of MAX_OCR_MB (line 26), taken when the variable is unset or
\* empty.
MAX_OCR_MB_DEFAULT == 30
MB == 1024 * 1024
CHUNK == 8192

(***************************************************************************)
(* Strings as sequences of characters.                                     *)
(***************************************************************************)
EmptyStr == << >>

StartsWith(s, prefix) ==
    /\ Len(s) >= Len(prefix)
    /\ SubSeq(s, 1, Len(prefix)) = prefix

LowerChar(c) ==
    CASE c = "P" -> "p"
      [] c = "D" -> "d"
      [] c = "F" -> "f"
      [] c = "X" -> "x"
      [] c = "L" -> "l"
      [] c = "S" -> "s"
      [] c = "O" -> "o"
      [] c = "C" -> "c"
      [] OTHER -> c

Lower(s) == [i \in 1..Len(s) |-> LowerChar(s[i])]

\* str.rfind("."): the last index of a dot, 1-based; 0 when there is none.
RFindDot(s) ==
    LET dots == {i \in 1..Len(s) : s[i] = "."}
    IN  IF dots = {} THEN 0 ELSE CHOOSE i \in dots : \A j \in dots : j <= i

\* PurePath.suffix: from the last dot on, unless the dot is the first or
\* the last character of the name.
Suffix(name) ==
    LET i == RFindDot(name)
    IN  IF 1 < i /\ i < Len(name) THEN SubSeq(name, i, Len(name)) ELSE EmptyStr

\* PurePath.stem: the name without its suffix.
Stem(name) ==
    LET i == RFindDot(name)
    IN  IF 1 < i /\ i < Len(name) THEN SubSeq(name, 1, i - 1) ELSE name

\* str.lstrip("."): drop the leading dots.
RECURSIVE LStripDot(_)
LStripDot(s) ==
    IF s # EmptyStr /\ Head(s) = "." THEN LStripDot(Tail(s)) ELSE s

\* str.strip(): drop leading and trailing blanks.
RECURSIVE LStrip(_)
LStrip(s) == IF s # EmptyStr /\ Head(s) = " " THEN LStrip(Tail(s)) ELSE s

RECURSIVE RStrip(_)
RStrip(s) ==
    IF s # EmptyStr /\ s[Len(s)] = " " THEN RStrip(SubSeq(s, 1, Len(s) - 1)) ELSE s

Strip(s) == RStrip(LStrip(s))

\* Python's `a or b` on strings: a unless it is empty; an absent key, whose
\* value is None, is written as the empty string, which `or` treats alike.
OrElse(a, b) == IF a # EmptyStr THEN a ELSE b

(***************************************************************************)
(* Configuration and classification (src/ingest.py).                       *)
(***************************************************************************)
\* The document root of ingest.py, as path parts: Path(DOC_ROOT).resolve(),
\* or the resolved default of line 17 (data/Note de frais below the working
\* directory) when DOC_ROOT is unset. The model writes it /docs.
ROOT == << <<"/">>, <<"d", "o", "c", "s">> >>

\* The default document root of the API (api/main.py, line 17) is data/Note
\* de frais below the directory above the one of main.py. It is ROOT when
\* ingest.py is started in that directory, and another directory otherwise;
\* the model writes that other directory /src/data.
OTHER_ROOT == << <<"/">>, <<"s", "r", "c">>, <<"d", "a", "t", "a">> >>

\* DOC_ROOT is not set in the environment.
Unset == << >>

ALLOW_EXTS ==
    { <<".", "p", "d", "f">>,
      <<".", "d", "o", "c">>,
      <<".", "d", "o", "c", "x">>,
      <<".", "x", "l", "s">>,
      <<".", "x", "l", "s", "x">> }

\* is_hidden: some part of the path starts with a dot.
is_hidden(parts) == \E i \in 1..Len(parts) : StartsWith(parts[i], <<".">>)

LockMarker == <<"~", "$">>

Name(parts) == parts[Len(parts)]

Parent(parts) == SubSeq(parts, 1, Len(parts) - 1)

IsPrefix(pre, parts) ==
    /\ Len(pre) <= Len(parts)
    /\ SubSeq(parts, 1, Len(pre)) = pre

\* Path.relative_to(ROOT): the parts below the root (the caller checks
\* IsPrefix first; the code gets a ValueError otherwise).
RelativeTo(parts, base) == SubSeq(parts, Len(base) + 1, Len(parts))

(***************************************************************************)
(* The documents the model's file system can hold: absolute paths under    *)
(* ROOT.                                                                   *)
(***************************************************************************)
DirA == <<"A">>
DirB == <<"B">>
DirC == <<"C">>
DirD == <<"D">>
F_pdf == <<"f", ".", "p", "d", "f">>

P_ok == ROOT \o <<DirA, DirB, F_pdf>>
P_hidden == ROOT \o <<DirA, DirB, <<".", "h", ".", "p", "d", "f">>>>
P_lock == ROOT \o <<DirA, DirB, <<"~", "$", "f", ".", "d", "o", "c", "x">>>>
P_shallow == ROOT \o <<DirA, <<"n", ".", "x", "l", "s">>>>
P_top == ROOT \o << <<"r", ".", "d", "o", "c">> >>
P_txt == ROOT \o <<DirA, DirB, <<"t", ".", "t", "x", "t">>>>
P_other == ROOT \o <<DirC, DirD, <<"s">>, <<"g", ".", "P", "D", "F">>>>
P_sub == ROOT \o <<DirA, DirB, <<"s">>, <<"h", ".", "p", "d", "f">>>>

PathSeq == <<P_ok, P_hidden, P_lock, P_txt, P_shallow, P_top, P_other>>

Paths == {PathSeq[i] : i \in 1..Len(PathSeq)}

\* A file body is `size` copies of the byte `fill`; st_size is its length.
Threshold == MAX_OCR_MB_DEFAULT * MB
Sizes == {Threshold, Threshold + 1}
Fills == {1}

\* The configuration, read once from the environment by each program:
\* FILTER_LEVEL1, FILTER_LEVEL2, MAX_DOCS and MAX_OCR_MB by ingest.py (lines
\* 23-26), DOC_ROOT by both. DOC_ROOT is ROOT when it is set (to the same
\* directory for both programs) and Unset otherwise; API_DEFAULT is the
\* directory the API's default names.
NoFilter ==
    [FILTER_LEVEL1 |-> {}, FILTER_LEVEL2 |-> {}, MAX_DOCS |-> 0,
     MAX_OCR_MB |-> MAX_OCR_MB_DEFAULT,
     DOC_ROOT |-> ROOT, API_DEFAULT |-> OTHER_ROOT]

\* DOC_ROOT of the API (api/main.py, line 17): the variable of the
\* environment, or the API's own default. stats() scans Path(DOC_ROOT), not
\* resolved (line 362): the same directory under another spelling when
\* DOC_ROOT is relative or goes through a link.
DOC_ROOT(c) == IF c.DOC_ROOT = Unset THEN c.API_DEFAULT ELSE c.DOC_ROOT

Configs ==
    { NoFilter,
      [NoFilter EXCEPT !.FILTER_LEVEL1 = {DirA}],
      [NoFilter EXCEPT !.FILTER_LEVEL2 = {DirB}],
      [NoFilter EXCEPT !.MAX_DOCS = 1] }

(***************************************************************************)
(* The file system: a function from the paths of the existing regular      *)
(* files to [fill, size, mtime]. A directory exists when a file lies       *)
(* below it.                                                               *)
(***************************************************************************)
IsFile(q, fsys) == q \in DOMAIN fsys

IsDir(q, fsys) == \E f \in DOMAIN fsys : IsPrefix(q, f) /\ Len(f) > Len(q)

Exists(q, fsys) == IsFile(q, fsys) \/ IsDir(q, fsys)

\* The orders in which the file system can return the entries of its
\* directories (os.listdir and os.scandir promise none): an order of the
\* existing files, a directory standing where its first file stands. Every
\* order of the children of every directory comes from one of them.
ListingOrders(fsys) ==
    LET n == Cardinality(DOMAIN fsys)
    IN  {ord \in [1..n -> DOMAIN fsys] :
            \A i \in 1..n, k \in 1..n : ord[i] = ord[k] => i = k}

\* The children of `dir` that the existing files name, in the order `ord`
\* and without repetition.
RECURSIVE EntriesFrom(_, _, _, _, _)
EntriesFrom(dir, fsys, ord, i, acc) ==
    IF i > Len(ord) THEN acc
    ELSE LET f == ord[i]
             under == IsFile(f, fsys) /\ IsPrefix(dir, f) /\ Len(f) > Len(dir)
             new == IF under THEN <<SubSeq(f, 1, Len(dir) + 1)>> ELSE << >>
             seen == {acc[k] : k \in 1..Len(acc)}
         IN  EntriesFrom(dir, fsys, ord, i + 1,
                         acc \o SelectSeq(new, LAMBDA e : e \notin seen))

\* Path.iterdir(): the direct children.
IterDir(dir, fsys, ord) == EntriesFrom(dir, fsys, ord, 1, << >>)

\* Path.rglob("*") is a generator too (pathlib of Python 3.11,
\* _RecursiveWildcardSelector): it walks the directories from `dir` down,
\* and for the directory it has come to it lists the children and hands
\* them out one by one; only when its caller asks for more does it list
\* that directory once again, for the sub-directories to go down into.
\* `walk` is the stack of the directories entered: `listed` once the
\* second listing is taken, `entries` the sub-directories it gave that are
\* still to enter. `files` is what is left of the children to hand out.
NewFrame(dir) == [dir |-> dir, listed |-> FALSE, entries |-> << >>]

\* rglob is entered: the children of `dir` are listed.
RGlobOpen(g, dir, fsys, ord) ==
    [g EXCEPT !.files = IterDir(dir, fsys, ord), !.walk = <<NewFrame(dir)>>]

\* The children handed out are exhausted and directories are left on the
\* stack: does the walk take a listing now (or just leave a directory)?
RGlobLists(g) ==
    LET top == g.walk[Len(g.walk)]
    IN  ~top.listed \/ top.entries # << >>

\* The next step of the walk: the second listing of the directory on top,
\* or the entry into its next sub-directory, whose children are listed, or
\* the return to the directory above.
RGlobResume(g, fsys, ord) ==
    LET n == Len(g.walk)
        top == g.walk[n]
    IN  IF ~top.listed
        THEN [g EXCEPT !.walk[n] =
                 [top EXCEPT !.listed = TRUE,
                             !.entries = SelectSeq(IterDir(top.dir, fsys, ord),
                                                   LAMBDA e : IsDir(e, fsys))]]
        ELSE IF top.entries # << >>
        THEN [g EXCEPT !.walk = Append([@ EXCEPT ![n].entries = Tail(@)],
                                       NewFrame(Head(top.entries))),
                       !.files = IterDir(Head(top.entries), fsys, ord)]
        ELSE [g EXCEPT !.walk = SubSeq(@, 1, n - 1)]

(***************************************************************************)
(* compute_sha256: the file is read in chunks of CHUNK bytes until a read  *)
(* returns nothing, each chunk fed to the hasher. The digest is the ideal  *)
(* one: it names the bytes that were fed (which byte, and how many of it;  *)
(* nothing at all for an empty file), so two digests are equal exactly     *)
(* when the hashed bytes are.                                              *)
(***************************************************************************)
\* Mutant: the loop stops at the first short read without hashing it.
HashedLength_FullChunksOnly(size) == (size \div CHUNK) * CHUNK

HashedLength(size) == (size \div CHUNK) * CHUNK + (size % CHUNK)

compute_sha256(file) ==
    LET fed == HashedLength(file.size)
    IN  [sha256 |-> IF fed = 0 THEN <<0, 0>> ELSE <<file.fill, fed>>]

\* to_iso: the timestamp as an ISO-8601 string in UTC.
to_iso(dt) == [iso_utc |-> dt]

(***************************************************************************)
(* iter_documents: a generator. Its state is the unread rest of the three  *)
(* nested listings. Each iterdir() is taken when its loop is entered; the  *)
(* rglob of the inner loop is taken directory by directory as the loop     *)
(* goes. The tree can change between two listings, so a step of the        *)
(* generator ends with the listing it takes, with its yield or with its    *)
(* end. The tests on an entry (is_dir, is_file) are made when the entry is *)
(* handed out.                                                             *)
(***************************************************************************)
NewGen ==
    [started |-> FALSE, done |-> FALSE, yielding |-> FALSE, yielded |-> 0,
     l1 |-> << >>, l2 |-> << >>, files |-> << >>, walk |-> << >>,
     level1_dir |-> << >>, level2_dir |-> << >>, out |-> << >>]

BatchPayload(g, file_path) ==
    [path |-> file_path,
     file_name |-> Name(file_path),
     level1 |-> Name(g.level1_dir),
     level2 |-> Name(g.level2_dir),
     ext |-> LStripDot(Lower(Suffix(Name(file_path)))),
     relative_subpath |->
         IF Parent(file_path) # g.level2_dir
         THEN RelativeTo(Parent(file_path), g.level2_dir) ELSE << >>]

\* Lines 66-70: the per-file tests of the batch pass.
BatchFileOk(file_path) ==
    /\ ~(is_hidden(file_path) \/ StartsWith(Name(file_path), LockMarker))
    /\ Lower(Suffix(Name(file_path))) \in ALLOW_EXTS

\* Lines 50-54 and 57-61: the tests on a category directory.
BatchDirOk(dir, filter, fsys) ==
    /\ ~(~IsDir(dir, fsys) \/ is_hidden(dir))
    /\ ~(filter # {} /\ Name(dir) \notin filter)

\* Run the generator body up to its next listing, which comes back in the
\* order `ord`, to its next yield, or to its end.
RECURSIVE GenAdvance(_, _, _, _)
GenAdvance(g, fsys, c, ord) ==
    IF g.files # << >> THEN
        LET file_path == Head(g.files)
            g1 == [g EXCEPT !.files = Tail(@)]
        IN  IF ~IsFile(file_path, fsys) THEN GenAdvance(g1, fsys, c, ord)
            ELSE IF ~BatchFileOk(file_path) THEN GenAdvance(g1, fsys, c, ord)
            ELSE [g1 EXCEPT !.yielded = @ + 1, !.yielding = TRUE,
                            !.out = <<BatchPayload(g, file_path)>>]
    ELSE IF g.walk # << >> THEN
        IF RGlobLists(g) THEN RGlobResume(g, fsys, ord)
        ELSE GenAdvance(RGlobResume(g, fsys, ord), fsys, c, ord)
    ELSE IF g.l2 # << >> THEN
        LET d == Head(g.l2)
            g1 == [g EXCEPT !.l2 = Tail(@)]
        IN  IF ~BatchDirOk(d, c.FILTER_LEVEL2, fsys) THEN GenAdvance(g1, fsys, c, ord)
            ELSE RGlobOpen([g1 EXCEPT !.level2_dir = d], d, fsys, ord)
    ELSE IF g.l1 # << >> THEN
        LET d == Head(g.l1)
            g1 == [g EXCEPT !.l1 = Tail(@)]
        IN  IF ~BatchDirOk(d, c.FILTER_LEVEL1, fsys) THEN GenAdvance(g1, fsys, c, ord)
            ELSE [g1 EXCEPT !.level1_dir = d, !.l2 = IterDir(d, fsys, ord)]
    ELSE [g EXCEPT !.done = TRUE, !.out = << >>]

GenEnd(g) ==
    [g EXCEPT !.done = TRUE, !.out = << >>, !.l1 = << >>, !.l2 = << >>,
              !.files = << >>, !.walk = << >>]

\* Mutant: the cap is tested with > for >=.
GenNext_CapLate(g, fsys, c, ord) ==
    IF ~g.started THEN
        IF ~Exists(ROOT, fsys) THEN GenEnd([g EXCEPT !.started = TRUE])
        ELSE [g EXCEPT !.started = TRUE, !.l1 = IterDir(ROOT, fsys, ord)]
    ELSE IF g.yielding /\ c.MAX_DOCS # 0 /\ g.yielded > c.MAX_DOCS THEN GenEnd(g)
    ELSE GenAdvance([g EXCEPT !.yielding = FALSE], fsys, c, ord)

\* The generator goes on: from its start it tests ROOT.exists() and lists
\* the root; from the yield of line 75 it comes to the test of the document
\* cap first; from a listing it goes on with what the listing gave.
GenNext(g, fsys, c, ord) ==
    IF ~g.started THEN
        IF ~Exists(ROOT, fsys) THEN GenEnd([g EXCEPT !.started = TRUE])
        ELSE [g EXCEPT !.started = TRUE, !.l1 = IterDir(ROOT, fsys, ord)]
    ELSE IF g.yielding /\ c.MAX_DOCS # 0 /\ g.yielded >= c.MAX_DOCS THEN GenEnd(g)
    ELSE GenAdvance([g EXCEPT !.yielding = FALSE], fsys, c, ord)

(***************************************************************************)
(* The extraction service. An answer is the metadata object of the /meta   *)
(* request and the text of the /tika request; a key the object lacks is    *)
(* the empty string.                                                       *)
(***************************************************************************)
TikaAnswers ==
    { [title |-> <<" ", "T", " ">>, dc_title |-> EmptyStr,
       content_type |-> <<"p", "d", "f">>, content_type_parsed |-> EmptyStr,
       text |-> <<"x">>],
      [title |-> EmptyStr, dc_title |-> <<" ">>,
       content_type |-> EmptyStr, content_type_parsed |-> <<"b", "i", "n">>,
       text |-> EmptyStr] }

\* Lines 100-104: the result of tika_extract_text for a successful attempt.
TikaResult(answer, file_path) ==
    [title |-> OrElse(Strip(OrElse(OrElse(answer.title, answer.dc_title), EmptyStr)),
                      Stem(Name(file_path))),
     content |-> OrElse(answer.text, EmptyStr),
     media_type |-> OrElse(OrElse(answer.content_type, answer.content_type_parsed),
                           EmptyStr)]

\* Mutant: the default title is the whole file name.
DefaultMeta_FileName(file_path) ==
    [title |-> Name(file_path), content |-> EmptyStr, media_type |-> EmptyStr]

\* Line 137: what build_doc starts from, and keeps when extraction is
\* skipped or fails.
DefaultMeta(file_path) ==
    [title |-> Stem(Name(file_path)), content |-> EmptyStr, media_type |-> EmptyStr]

\* Mutant: the size in whole megabytes (floor division).
ExtractionWanted_WholeMb(st_size, c) == (st_size \div MB) <= c.MAX_OCR_MB

\* Lines 140-141: size_mb = st_size / (1024 * 1024); size_mb <= MAX_OCR_MB.
\* The division by a power of two is exact, so the test is on the bytes.
ExtractionWanted(st_size, c) == st_size <= c.MAX_OCR_MB * MB

\* Lines 147-170: the record, from the payload, the stat result, the hash
\* and the extraction result.
build_doc_record(payload, stat, sha256, meta) ==
    [id |-> sha256,
     path |-> payload.path,
     file_name |-> payload.file_name,
     level1 |-> payload.level1,
     level2 |-> payload.level2,
     title |-> OrElse(meta.title, Stem(payload.file_name)),
     content |-> OrElse(meta.content, EmptyStr),
     media_type |-> OrElse(meta.media_type, EmptyStr),
     ext |-> payload.ext,
     modified_at |-> to_iso(stat.mtime),
     size_bytes |-> stat.size,
     sha256 |-> sha256,
     suggest |-> {t \in {payload.level1, payload.level2, meta.title} : t # EmptyStr}]

\* Line 128: the identifier the upsert is addressed to,
\* doc.get("sha256") or doc.get("id"); a digest is never empty.
doc_id(doc) == IF doc.sha256 # EmptyStr THEN doc.sha256 ELSE doc.id

\* Mutant: the record is posted without its id, so every call adds one.
Upsert_Post(idx, key, doc, extract) ==
    idx \cup {[key |-> [auto |-> Cardinality(idx)], doc |-> doc, extract |-> extract]}

\* Mutant: the record sent becomes the only record of the index.
Upsert_Replace(idx, key, doc, extract) ==
    {[key |-> key, doc |-> doc, extract |-> extract]}

\* Mutant: writes to a key are not serialized; the title of the record
\* that was there survives the write.
Upsert_KeepTitle(idx, key, doc, extract) ==
    {e \in idx : e.key # key}
        \cup {[key |-> key,
               doc |-> IF \E e \in idx : e.key = key
                       THEN [doc EXCEPT !.title =
                                (CHOOSE e \in idx : e.key = key).doc.title]
                       ELSE doc,
               extract |-> extract]}

\* The index service's PUT /_doc/{id}: the record stored under the id
\* replaces the one that was there. `extract` is history: the extraction
\* outcome the record was built from.
Upsert(idx, key, doc, extract) ==
    {e \in idx : e.key # key}
        \cup {[key |-> key, doc |-> doc, extract |-> extract]}

(***************************************************************************)
(* The watch path: derive_levels and the tests of index_path.              *)
(***************************************************************************)
NoLevels == [found |-> FALSE]

\* Mutant: two segments below the root are taken for enough.
derive_levels_TwoParts(file_path) ==
    IF ~IsPrefix(ROOT, file_path) THEN NoLevels
    ELSE LET parts == RelativeTo(file_path, ROOT)
         IN  IF Len(parts) < 2 THEN NoLevels
             ELSE [found |-> TRUE, level1 |-> parts[1], level2 |-> parts[2]]

derive_levels(file_path) ==
    IF ~IsPrefix(ROOT, file_path) THEN NoLevels
    ELSE LET parts == RelativeTo(file_path, ROOT)
         IN  IF Len(parts) < 3 THEN NoLevels
             ELSE [found |-> TRUE, level1 |-> parts[1], level2 |-> parts[2]]

\* Lines 184-191: the tests an event's path passes before it is indexed.
IndexPathOk(file_path, fsys) ==
    /\ ~(~Exists(file_path, fsys) \/ ~IsFile(file_path, fsys))
    /\ Lower(Suffix(Name(file_path))) \in ALLOW_EXTS
    /\ derive_levels(file_path).found

WatchPayload(file_path) ==
    LET levels == derive_levels(file_path)
    IN  [path |-> file_path,
         file_name |-> Name(file_path),
         level1 |-> levels.level1,
         level2 |-> levels.level2,
         ext |-> LStripDot(Lower(Suffix(Name(file_path)))),
         relative_subpath |-> << >>]

(***************************************************************************)
(* The reconciler: stats() of src/api/main.py.                             *)
(***************************************************************************)
\* dict.get(k, 0)
Get(m, k) == IF k \in DOMAIN m THEN m[k] ELSE 0

\* Mutant: only the categories found on disk are compared.
diff_maps_DiskKeys(a, b) == [k \in DOMAIN a |-> a[k] - Get(b, k)]

\* Mutant: the index count minus the disk count.
diff_maps_IndexMinusDisk(a, b) ==
    [k \in (DOMAIN a) \cup (DOMAIN b) |-> Get(b, k) - Get(a, k)]

\* Lines 368-370. A JSON object does not order its keys, so sorted() is
\* not modelled.
diff_maps(a, b) ==
    [k \in (DOMAIN a) \cup (DOMAIN b) |-> Get(a, k) - Get(b, k)]

\* Lines 372-377: the answer of /api/stats.
stats_response(disk, idx) ==
    [status |-> 200,
     doc_root |-> disk.root,
     disk |-> disk,
     index |-> idx,
     diff |-> [total_missing |-> disk.total - idx.total,
               by_level1_missing |-> diff_maps(disk.by_level1, idx.by_level1),
               by_level2_missing |-> diff_maps(disk.by_level2, idx.by_level2)]]

\* Line 366: the answer when _fetch_index_stats raises.
stats_error == [status |-> 502]

\* Lines 300-301.
_is_hidden(path) == \E i \in 1..Len(path) : StartsWith(path[i], <<".">>)

\* Lines 314-328: the files _scan_disk_stats counts, those it finds below
\* a level-2 directory that pass its tests.
ScanDirOk(dir, fsys) == ~(~IsDir(dir, fsys) \/ _is_hidden(dir))

\* Mutant: the test of the office lock-file prefix is missing.
ScanFileOk_LockCounted(file_path, fsys) ==
    /\ ~(~IsFile(file_path, fsys) \/ _is_hidden(file_path))
    /\ ~(Lower(Suffix(Name(file_path))) \notin ALLOW_EXTS)

ScanFileOk(file_path, fsys) ==
    /\ ~(~IsFile(file_path, fsys) \/ _is_hidden(file_path)
            \/ StartsWith(Name(file_path), LockMarker))
    /\ ~(Lower(Suffix(Name(file_path))) \notin ALLOW_EXTS)

Counted(root_path, fsys) ==
    {file_path \in DOMAIN fsys :
        /\ IsPrefix(root_path, file_path)
        /\ Len(file_path) >= Len(root_path) + 3
        /\ ScanDirOk(SubSeq(file_path, 1, Len(root_path) + 1), fsys)
        /\ ScanDirOk(SubSeq(file_path, 1, Len(root_path) + 2), fsys)
        /\ ScanFileOk(file_path, fsys)}

\* m[k] = v of a dict, and m.get(k, {}) of a dict of dicts.
Put(m, k, v) == [x \in (DOMAIN m) \cup {k} |-> IF x = k THEN v ELSE m[x]]

GetMap(m, k) == IF k \in DOMAIN m THEN m[k] ELSE << >>

\* Lines 305-311: the scan as it starts, with its empty statistics. The
\* scan walks the tree as iter_documents does, listing by listing.
NewScan(root_path) ==
    [started |-> FALSE, done |-> FALSE,
     l1 |-> << >>, l2 |-> << >>, files |-> << >>, walk |-> << >>,
     in1 |-> FALSE, in2 |-> FALSE,
     level1_dir |-> << >>, level2_dir |-> << >>,
     lvl1_total |-> 0, lvl2_count |-> 0,
     stats |-> [root |-> root_path, total |-> 0, by_level1 |-> << >>,
                by_level2 |-> << >>, by_level1_level2 |-> << >>]]

\* Lines 314-337: the three loops, up to the next listing or to the end.
\* `in2` and `in1`: the loop over the files of a level-2 directory, and
\* over the level-2 directories of a level-1 directory, is under way.
RECURSIVE ScanAdvance(_, _, _)
ScanAdvance(s, fsys, ord) ==
    LET level1 == Name(s.level1_dir)
        level2 == Name(s.level2_dir)
    IN
    IF s.files # << >> THEN
        LET file_path == Head(s.files)
            s1 == [s EXCEPT !.files = Tail(@)]
        IN  IF ~ScanFileOk(file_path, fsys) THEN ScanAdvance(s1, fsys, ord)
            ELSE ScanAdvance(
                     [s1 EXCEPT !.stats.total = @ + 1,
                                !.lvl1_total = @ + 1,
                                !.lvl2_count = @ + 1,
                                !.stats.by_level2 = Put(@, level2, Get(@, level2) + 1)],
                     fsys, ord)
    ELSE IF s.walk # << >> THEN
        IF RGlobLists(s) THEN RGlobResume(s, fsys, ord)
        ELSE ScanAdvance(RGlobResume(s, fsys, ord), fsys, ord)
    ELSE IF s.in2 THEN
        ScanAdvance(
            [s EXCEPT !.in2 = FALSE,
                      !.stats.by_level1_level2 =
                          IF s.lvl2_count # 0
                          THEN Put(@, level1, Put(GetMap(@, level1), level2, s.lvl2_count))
                          ELSE @],
            fsys, ord)
    ELSE IF s.l2 # << >> THEN
        LET d == Head(s.l2)
            s1 == [s EXCEPT !.l2 = Tail(@)]
        IN  IF ~ScanDirOk(d, fsys) THEN ScanAdvance(s1, fsys, ord)
            ELSE RGlobOpen([s1 EXCEPT !.level2_dir = d, !.lvl2_count = 0,
                                      !.in2 = TRUE],
                           d, fsys, ord)
    ELSE IF s.in1 THEN
        ScanAdvance(
            [s EXCEPT !.in1 = FALSE,
                      !.stats.by_level1 =
                          IF s.lvl1_total # 0
                          THEN Put(@, level1, Get(@, level1) + s.lvl1_total)
                          ELSE @],
            fsys, ord)
    ELSE IF s.l1 # << >> THEN
        LET d == Head(s.l1)
            s1 == [s EXCEPT !.l1 = Tail(@)]
        IN  IF ~ScanDirOk(d, fsys) THEN ScanAdvance(s1, fsys, ord)
            ELSE [s1 EXCEPT !.level1_dir = d, !.lvl1_total = 0, !.in1 = TRUE,
                            !.l2 = IterDir(d, fsys, ord)]
    ELSE [s EXCEPT !.done = TRUE]

\* Lines 304-339, one step of the scan `s`: at its start the test of
\* root_path.exists(), which ends it with empty statistics, or the listing
\* of the root; then the loops. When the scan is done, s.stats is what it
\* returns.
_scan_disk_stats(s, fsys, ord) ==
    IF ~s.started THEN
        IF ~Exists(s.stats.root, fsys)
        THEN [s EXCEPT !.started = TRUE, !.done = TRUE]
        ELSE [s EXCEPT !.started = TRUE,
                       !.l1 = IterDir(s.stats.root, fsys, ord)]
    ELSE ScanAdvance(s, fsys, ord)

\* Lines 346-347: the number of buckets each terms aggregation asks for.
AGG_SIZE_LEVEL1 == 500
AGG_SIZE_LEVEL2 == 1000

\* A terms aggregation on a field of the records: one bucket per value with
\* the number of records that have it, the `size` largest buckets only.
TermsBuckets(idx, field, size) ==
    LET keys == {e.doc[field] : e \in idx}
        count(k) == Cardinality({e \in idx : e.doc[field] = k})
        top == IF Cardinality(keys) <= size THEN keys
               ELSE CHOOSE K \in SUBSET keys :
                      /\ Cardinality(K) = size
                      /\ \A k \in K, o \in keys \ K : count(k) >= count(o)
    IN  [k \in top |-> count(k)]

\* Lines 342-357: the report of the aggregation query on the records `idx`
\* of the index, when the query succeeds.
_fetch_index_stats(idx) ==
    [total |-> Cardinality(idx),
     by_level1 |-> TermsBuckets(idx, "level1", AGG_SIZE_LEVEL1),
     by_level2 |-> TermsBuckets(idx, "level2", AGG_SIZE_LEVEL2)]

RECURSIVE SumOf(_)
SumOf(m) ==
    IF DOMAIN m = {} THEN 0
    ELSE LET k == CHOOSE x \in DOMAIN m : TRUE
         IN  m[k] + SumOf([x \in (DOMAIN m) \ {k} |-> m[x]])

\* Count maps over the category names K: a category that is present
\* counts at least one file, and at most MaxCount.
CountMaps(K) == UNION { [D -> 1..MaxCount] : D \in SUBSET K }

\* What a disk scan, or an aggregation of the index, can report: every
\* file counts once under each level.
CountReports ==
    { [total |-> SumOf(mm[1]), by_level1 |-> mm[1], by_level2 |-> mm[2]] :
        mm \in { nn \in CountMaps({DirA, DirB}) \X CountMaps({DirC, DirD}) :
                    SumOf(nn[1]) = SumOf(nn[2]) } }

NoRequest == [state |-> "none"]

(***************************************************************************)
(* State.                                                                  *)
(***************************************************************************)
VARIABLES
    fs,         \* the document tree
    cfg,        \* the process configuration
    index,      \* the records of the index, each under its key
    pc,         \* where main() is
    resp,       \* ensure_index: the status of the existence check
    gen,        \* the iter_documents generator of the batch pass
    job,        \* per worker, the build_doc / index_document call in progress
    hist,       \* history of the run: requests sent, files yielded and tried
    api,        \* the /api/stats request in progress
    queue       \* the events the observer has received and not yet dispatched

vars == <<fs, cfg, index, pc, resp, gen, job, hist, api, queue>>

\* The main thread runs the batch pass; the observer thread runs the
\* event handlers, one event at a time.
Threads == {"batch", "watch"}

\* "other" is the observer thread of another process of the program that
\* is watching the same root and writes to the same index.
Workers == Threads \cup {"other"}

IdleJob == [pc |-> "idle"]

Active(j) == j.pc \in {"stat", "hash", "tika", "text", "upsert", "done"}

NoResp == -1

\* `runs` counts the runs of the program so far, this one included, and
\* `kept` is the ids the index held when this run started.
NewHist ==
    [traffic |-> FALSE,
     yielded |-> << >>, attempted |-> << >>, stored |-> {},
     created |-> {}, reported |-> {}, runs |-> 1, kept |-> {}, late |-> 0]

\* The trees a run can find: up to MaxFiles of the model's paths, each with
\* a body of one of the sizes.
TreesOf(sizes) ==
    UNION { [D -> [fill : Fills, size : sizes, mtime : {0}]] :
              D \in {S \in SUBSET Paths : Cardinality(S) <= MaxFiles} }

\* The program is started (line 257) on one of the trees, under one of the
\* configurations, with an empty index.
Start(trees, configs) ==
    /\ fs \in trees
    /\ cfg \in configs
    /\ index = {}
    /\ pc = "start"
    /\ resp = NoResp
    /\ gen = NewGen
    /\ job = [w \in Workers |-> IdleJob]
    /\ hist = NewHist
    /\ api = NoRequest
    /\ queue = << >>

\* The whole program: every tree of files at the extraction threshold,
\* every configuration.
Init == Start(TreesOf({Threshold}), Configs)

(***************************************************************************)
(* ensure_index (lines 107-121).                                           *)
(***************************************************************************)
\* The statuses a request can be answered with; 0 stands for a request
\* that raised (no answer).
Statuses == {200, 404, 204, 403, 500, 0}

\* Response.raise_for_status(): raises for 4xx and 5xx.
RaisesForStatus(status) == status >= 400 /\ status < 600

\* Line 109: the existence check.
EnsureCheck(status) ==
    /\ pc = "start"
    /\ IF status = 0
       THEN pc' = "aborted" /\ resp' = resp
       ELSE pc' = "checked" /\ resp' = status
    /\ UNCHANGED <<fs, cfg, index, gen, job, hist, api, queue>>

\* Lines 110-121: where ensure_index goes on the status of the check.
AfterCheck(status) ==
    IF status = 200 THEN "ensured"
    ELSE IF status = 404 THEN "create"
    ELSE IF RaisesForStatus(status) THEN "aborted"
    ELSE "ensured"

EnsureBranch ==
    /\ pc = "checked"
    /\ pc' = AfterCheck(resp)
    /\ resp' = NoResp
    /\ UNCHANGED <<fs, cfg, index, gen, job, hist, api, queue>>

\* Lines 118-120: the create request, and raise_for_status on its answer.
EnsureCreate(status) ==
    /\ pc = "create"
    /\ pc' = IF status = 0 \/ RaisesForStatus(status) THEN "aborted" ELSE "ensured"
    /\ UNCHANGED <<fs, cfg, index, resp, gen, job, hist, api, queue>>

\* The timeout each request of the pipeline is given, in seconds; NoTimeout
\* for a request sent without one, which waits as long as the connection
\* stays open.
NoTimeout == 0

Timeout(call) ==
    CASE call = "meta" -> 120
      [] call = "tika" -> 300
      [] call = "upsert" -> 60
      [] call = "exists" -> NoTimeout
      [] call = "create" -> NoTimeout

\* The index service accepts a request of ensure_index and never answers
\* it: requests raises when the timeout expires, and waits when there is
\* none. (For the requests of tika_extract_text and index_document, which
\* have a timeout, no answer is one of the failures of JobTikaFail and
\* JobUpsertFail.)
EnsureSilent(call) ==
    /\ \/ call = "exists" /\ pc = "start"
       \/ call = "create" /\ pc = "create"
    /\ pc' = IF Timeout(call) = NoTimeout THEN "blocked" ELSE "aborted"
    /\ UNCHANGED <<fs, cfg, index, resp, gen, job, hist, api, queue>>

(***************************************************************************)
(* The batch pass of main() (lines 225-236).                               *)
(***************************************************************************)
\* Line 225, `if initial:`. ensure_index has returned; main() enters the
\* batch pass when its option `initial` is on, and goes past it to line 238
\* otherwise.
Initial(initial) ==
    /\ pc = "ensured"
    /\ pc' = IF initial THEN "batch" ELSE "after_batch"
    /\ UNCHANGED <<fs, cfg, index, resp, gen, job, hist, api, queue>>

\* `changed` is history: a failed attempt of the upsert has changed the
\* index.
StartJob(payload) ==
    [pc |-> "stat", payload |-> payload, calls |-> 0, extract |-> "none",
     changed |-> FALSE]

\* for payload in iter_documents(): the loop asks the generator for the
\* next payload. The generator takes a listing of the tree and goes on,
\* hands out a payload, or ends, which ends the loop. pc is "batch" only
\* inside the `if initial:` block.
BatchNext ==
    /\ pc = "batch"
    /\ ~Active(job["batch"])
    /\ \E ord \in ListingOrders(fs) :
       LET g == GenNext(gen, fs, cfg, ord)
       IN  /\ gen' = [g EXCEPT !.out = << >>]
           /\ IF g.out # << >>
              THEN /\ job' = [job EXCEPT !["batch"] = StartJob(g.out[1])]
                   /\ hist' = [hist EXCEPT !.yielded = Append(@, g.out[1].path)]
                   /\ pc' = pc
              ELSE /\ pc' = IF g.done THEN "after_batch" ELSE pc
                   /\ UNCHANGED <<job, hist>>
    /\ UNCHANGED <<fs, cfg, index, resp, api, queue>>

(***************************************************************************)
(* build_doc and index_document, step by step, for the worker w. The call  *)
(* sits in a try block of its caller (lines 228-235 for the batch pass,    *)
(* 200-205 for an event), which logs the exception and goes on.            *)
(***************************************************************************)
\* build_doc or index_document is over for the worker's file: it returned
\* ("ok") or raised ("failed") after `calls` attempts of its last remote call.
Finish(w, result, calls, changed) ==
    job' = [job EXCEPT ![w] =
               [pc |-> "done", result |-> result, calls |-> calls,
                path |-> job[w].payload.path, changed |-> changed]]

NoteAttempt(w, h) ==
    IF w = "batch" THEN [h EXCEPT !.attempted = Append(@, job[w].payload.path)]
    ELSE h

\* Line 135: p.stat(), which raises when the file is gone or cannot be
\* reached.
JobStat(w, readable) ==
    /\ job[w].pc = "stat"
    /\ hist' = NoteAttempt(w, hist)
    /\ LET p == job[w].payload.path
       IN  IF ~IsFile(p, fs) \/ ~readable
           THEN Finish(w, "failed", 0, FALSE)
           ELSE job' = [job EXCEPT ![w] =
                    [job[w] EXCEPT !.pc = "hash"] @@
                    [stat |-> [size |-> fs[p].size, mtime |-> fs[p].mtime]]]
    /\ UNCHANGED <<fs, cfg, index, pc, resp, gen, api, queue>>

\* Lines 136-141: compute_sha256(p), which opens the file as it is now and
\* raises when it is gone or cannot be read, then the size test, on the
\* size p.stat() gave.
JobHash(w, readable) ==
    /\ job[w].pc = "hash"
    /\ LET p == job[w].payload.path
       IN  IF ~IsFile(p, fs) \/ ~readable
           THEN Finish(w, "failed", 0, FALSE)
           ELSE LET stat == job[w].stat
                    sha256 == compute_sha256(fs[p])
                    j == [job[w] EXCEPT !.pc = "tika"] @@ [sha256 |-> sha256]
                IN  IF ExtractionWanted(stat.size, cfg)
                    THEN job' = [job EXCEPT ![w] = j]
                    ELSE job' = [job EXCEPT ![w] =
                            [j EXCEPT !.pc = "upsert", !.extract = "skipped"] @@
                            [doc |-> build_doc_record(j.payload, stat, sha256,
                                                      DefaultMeta(p))]]
    /\ UNCHANGED <<fs, cfg, index, pc, resp, gen, hist, api, queue>>

\* Mutant: the call is given up one attempt late.
RetryStops_Late(calls) == calls > MAX_ATTEMPTS

\* Mutant: the call is given up after twice as many attempts.
RetryStops_Twice(calls) == calls >= 2 * MAX_ATTEMPTS

\* tenacity's stop_after_attempt(5): after a failed attempt, the call is
\* given up once `calls` attempts were made.
RetryStops(calls) == calls >= MAX_ATTEMPTS

\* The call in progress without what the attempt under way has received.
NewAttempt(j) == [x \in (DOMAIN j) \ {"metadata"} |-> j[x]]

\* The metadata object of an answer (lines 91-94).
Metadata(answer) ==
    [title |-> answer.title, dc_title |-> answer.dc_title,
     content_type |-> answer.content_type,
     content_type_parsed |-> answer.content_type_parsed]

\* An attempt of tika_extract_text is two requests, each waited for: PUT
\* /meta at job pc "tika" (line 89), then PUT /tika at "text" (line 96).
\* Here the request under way raises: it is refused, is answered with an
\* error status or is not answered in time, or the file cannot be read for
\* it. The attempt is over; the next one starts again at /meta. After the
\* last attempt the RetryError reaches build_doc, which keeps the default
\* meta (lines 143-145).
JobTikaFail(w, request) ==
    /\ \/ request = "meta" /\ job[w].pc = "tika"
       \/ request = "tika" /\ job[w].pc = "text"
    /\ LET calls == job[w].calls + 1
           p == job[w].payload.path
           j == NewAttempt(job[w])
       IN  IF RetryStops(calls)
           THEN job' = [job EXCEPT ![w] =
                    [j EXCEPT !.pc = "upsert", !.calls = 0,
                              !.extract = "failed"] @@
                    [doc |-> build_doc_record(j.payload, j.stat,
                                              j.sha256, DefaultMeta(p))]]
           ELSE job' = [job EXCEPT ![w] = [j EXCEPT !.pc = "tika", !.calls = calls]]
    /\ hist' = [hist EXCEPT !.traffic = TRUE]
    /\ UNCHANGED <<fs, cfg, index, pc, resp, gen, api, queue>>

\* The /meta request of an attempt is answered with success (lines 89-94).
JobMetaOk(w, answer) ==
    /\ job[w].pc = "tika"
    /\ job' = [job EXCEPT ![w] =
                  [job[w] EXCEPT !.pc = "text"] @@ [metadata |-> Metadata(answer)]]
    /\ hist' = [hist EXCEPT !.traffic = TRUE]
    /\ UNCHANGED <<fs, cfg, index, pc, resp, gen, api, queue>>

\* The /tika request of the attempt is answered with success too (lines
\* 96-104): `answer` is the metadata received before and the text.
JobTikaOk(w, answer) ==
    /\ job[w].pc = "text"
    /\ Metadata(answer) = job[w].metadata
    /\ LET p == job[w].payload.path
           j == NewAttempt(job[w])
       IN  job' = [job EXCEPT ![w] =
               [j EXCEPT !.pc = "upsert", !.calls = 0,
                         !.extract = "answered"] @@
               [answer |-> answer,
                doc |-> build_doc_record(j.payload, j.stat,
                                         j.sha256, TikaResult(answer, p))]]
    /\ hist' = [hist EXCEPT !.traffic = TRUE]
    /\ UNCHANGED <<fs, cfg, index, pc, resp, gen, api, queue>>

\* The extraction outcome a record was built from.
Outcome(j) ==
    IF j.extract = "answered" THEN [kind |-> "answered", answer |-> j.answer]
    ELSE [kind |-> j.extract]

\* One attempt of index_document that raises: the PUT is refused or never
\* arrives (the index is as it was), or the index has stored the record
\* and its answer is an error status or does not come within the timeout
\* of line 129 (`applied`). After the last attempt the RetryError reaches
\* the caller's except clause.
JobUpsertFail(w, applied) ==
    /\ job[w].pc = "upsert"
    /\ index' = IF applied
                THEN Upsert(index, doc_id(job[w].doc), job[w].doc, Outcome(job[w]))
                ELSE index
    /\ LET calls == job[w].calls + 1
           changed == job[w].changed \/ index' # index
       IN  IF RetryStops(calls)
           THEN Finish(w, "failed", calls, changed)
           ELSE job' = [job EXCEPT ![w].calls = calls, ![w].changed = changed]
    /\ hist' = [hist EXCEPT !.traffic = TRUE]
    /\ UNCHANGED <<fs, cfg, pc, resp, gen, api, queue>>

\* One attempt of index_document whose PUT succeeds.
JobUpsertOk(w) ==
    /\ job[w].pc = "upsert"
    /\ Finish(w, "ok", job[w].calls + 1, job[w].changed)
    /\ index' = Upsert(index, doc_id(job[w].doc), job[w].doc, Outcome(job[w]))
    /\ hist' = [hist EXCEPT !.traffic = TRUE,
                            !.stored = IF w = "batch"
                                       THEN @ \cup {job[w].sha256} ELSE @]
    /\ UNCHANGED <<fs, cfg, pc, resp, gen, api, queue>>

\* Mutant: the exception of a file leaves the loop and ends main().
AfterFileError_Raise(p) == "aborted"

\* Where main() is after the except clause of the batch loop (line 234)
\* caught the exception of a file.
AfterFileError(p) == p

\* Back in the caller: the batch loop counts the file (lines 231-233) or
\* logs its exception (234-235); index_path prints either way (203-205).
JobReturn(w) ==
    /\ job[w].pc = "done"
    /\ job' = [job EXCEPT ![w] = IdleJob]
    /\ pc' = IF w = "batch" /\ job[w].result = "failed"
             THEN AfterFileError(pc) ELSE pc
    /\ UNCHANGED <<fs, cfg, index, resp, gen, hist, api, queue>>

(***************************************************************************)
(* After the batch pass (lines 236-253), and the observer.                 *)
(***************************************************************************)
\* Lines 238-253. if watch: schedule and start the observer on ROOT and
\* stay; otherwise main() returns (after the message of line 253 when the
\* pass was off too). observer.start() raises when ROOT does not exist (the
\* watch on a missing directory is refused), and main(), which catches
\* KeyboardInterrupt only, ends with that exception.
AfterBatch(watch) ==
    /\ pc = "after_batch"
    /\ pc' = IF ~watch THEN "exited"
             ELSE IF Exists(ROOT, fs) THEN "watching"
             ELSE "aborted"
    /\ UNCHANGED <<fs, cfg, index, resp, gen, job, hist, api, queue>>

\* The file system reports a creation or a modification (a touch, or a
\* repeated notification) of a file or directory below the root, and the
\* observer thread, once the handler of the previous event has returned,
\* calls IngestEventHandler.on_created or on_modified (lines 209-217),
\* which runs the tests of index_path.
Watched == Paths \cup {Parent(P_ok)}

\* Mutant: the test of event.is_directory is inverted.
on_event_DirectoriesOnly(w, src_path, is_directory) ==
    IF ~is_directory THEN job' = job
    ELSE IF ~IndexPathOk(src_path, fs) THEN job' = job
    ELSE job' = [job EXCEPT ![w] = StartJob(WatchPayload(src_path))]

\* on_created and on_modified (lines 209-217), in the observer thread w.
on_event(w, src_path, is_directory) ==
    IF is_directory THEN job' = job
    ELSE IF ~IndexPathOk(src_path, fs) THEN job' = job
    ELSE job' = [job EXCEPT ![w] = StartJob(WatchPayload(src_path))]

\* The observer is scheduled on ROOT and started (lines 242-243), and
\* observer.stop() has not been called: main() is in the loop of lines
\* 245-246, or has caught the KeyboardInterrupt (line 247) and has not yet
\* come to line 248.
ObserverRunning == pc \in {"watching", "interrupted"}

WatchDispatch(src_path, kind) ==
    /\ ObserverRunning
    /\ ~Active(job["watch"])
    /\ IF kind = "created"
       THEN on_event("watch", src_path, IsDir(src_path, fs))
       ELSE on_event("watch", src_path, IsDir(src_path, fs))
    /\ UNCHANGED <<fs, cfg, index, pc, resp, gen, hist, api, queue>>

\* The operator's interrupt arrives while main() is in observer.join(1)
\* (line 246): KeyboardInterrupt is raised there and caught at line 247.
\* The observer thread knows nothing of it yet.
Interrupt ==
    /\ pc = "watching"
    /\ pc' = "interrupted"
    /\ UNCHANGED <<fs, cfg, index, resp, gen, job, hist, api, queue>>

\* Line 248 (and 249, which repeats it): observer.stop(). The observer
\* thread takes no event any more, so the events that wait are dropped; the
\* handler it is in goes on.
ObserverStop ==
    /\ pc = "interrupted"
    /\ pc' = "stopping"
    /\ queue' = << >>
    /\ hist' = [hist EXCEPT !.late = 0]
    /\ UNCHANGED <<fs, cfg, index, resp, gen, job, api>>

\* The handler of the observer thread as the end of the process leaves it:
\* the thread is a daemon thread (watchdog's BaseThread), which the
\* interpreter does not wait for, so the handler is cut where it is.
CutJob(j) == IF Active(j) THEN [pc |-> "cut", at |-> j.pc] ELSE j

\* A second interrupt arrives after the first was caught: in the except
\* clause (line 248), or in observer.stop() or observer.join() of lines
\* 249-250. No try block encloses these lines, so main() ends with the
\* KeyboardInterrupt, and the process with it, the waiting events lost.
InterruptAgain ==
    /\ pc \in {"interrupted", "stopping"}
    /\ pc' = "killed"
    /\ job' = [job EXCEPT !["watch"] = CutJob(@)]
    /\ queue' = << >>
    /\ hist' = [hist EXCEPT !.late = 0]
    /\ UNCHANGED <<fs, cfg, index, resp, gen, api>>

\* Line 250: observer.join() returns once the observer thread has ended,
\* which it does after the handler it is in has returned; main() returns.
Join ==
    /\ pc = "stopping"
    /\ ~Active(job["watch"])
    /\ pc' = "exited"
    /\ UNCHANGED <<fs, cfg, index, resp, gen, job, hist, api, queue>>

\* The program is started again once its process has ended: a new process,
\* with the tree and the index as they are.
Restart ==
    /\ pc \in {"exited", "aborted", "killed"}
    /\ hist.runs < MaxRuns
    /\ pc' = "start"
    /\ resp' = NoResp
    /\ gen' = NewGen
    /\ job' = [w \in Workers |-> IdleJob]
    /\ hist' = [NewHist EXCEPT !.runs = hist.runs + 1,
                               !.kept = {e.key : e \in index}]
    /\ queue' = << >>
    /\ UNCHANGED <<fs, cfg, index, api>>

(***************************************************************************)
(* The observer with its event queue, on a tree that grows. The emitter    *)
(* thread appends the events the file system reports; the observer thread  *)
(* takes them one at a time and calls the handler (lines 208-217).         *)
(***************************************************************************)
FileBodies == [fill : Fills, size : Sizes, mtime : {0}]

FileEvent(src_path, event_type, is_directory) ==
    [src_path |-> src_path, event_type |-> event_type,
     is_directory |-> is_directory]

\* The history after an event has been appended to the queue: hist.late
\* counts the waiting events that arrived after main() had received the
\* interrupt (they are the last of the queue).
Arrived(h) == [h EXCEPT !.late = IF pc = "interrupted" THEN @ + 1 ELSE @]

\* The history after the head of the queue has been taken.
Taken(h) == [h EXCEPT !.late = IF @ = Len(queue) THEN @ - 1 ELSE @]

\* A file is created below the root. The emitter reports it when the
\* observer runs; nothing reports a file created earlier.
FsCreate(p, body) ==
    /\ pc \in {"ensured", "batch", "after_batch", "watching", "interrupted"}
    /\ p \notin DOMAIN fs
    /\ Cardinality(hist.created) < MaxCreated
    /\ Len(queue) < MaxQueue
    /\ fs' = fs @@ (p :> body)
    /\ IF ObserverRunning
       THEN /\ queue' = Append(queue, FileEvent(p, "created", FALSE))
            /\ hist' = Arrived([hist EXCEPT !.created = @ \cup {p},
                                            !.reported = @ \cup {p}])
       ELSE /\ queue' = queue
            /\ hist' = [hist EXCEPT !.created = @ \cup {p}]
    /\ UNCHANGED <<cfg, index, pc, resp, gen, job, api>>

\* The file system reports an existing file or directory once more: the
\* modification that follows a creation, a touch, a repeated notification.
FsNotify(p) ==
    /\ ObserverRunning
    /\ Exists(p, fs)
    /\ Len(queue) < MaxQueue
    /\ queue' = Append(queue, FileEvent(p, "modified", IsDir(p, fs)))
    /\ hist' = Arrived(IF IsFile(p, fs)
                        THEN [hist EXCEPT !.reported = @ \cup {p}]
                        ELSE hist)
    /\ UNCHANGED <<fs, cfg, index, pc, resp, gen, job, api>>

\* The observer thread, once the handler of the previous event has
\* returned, takes the next event and calls on_created or on_modified.
Deliver ==
    /\ ObserverRunning
    /\ ~Active(job["watch"])
    /\ queue # << >>
    /\ LET event == Head(queue)
       IN  IF event.event_type = "created"
           THEN on_event("watch", event.src_path, event.is_directory)
           ELSE on_event("watch", event.src_path, event.is_directory)
    /\ queue' = Tail(queue)
    /\ hist' = Taken(hist)
    /\ UNCHANGED <<fs, cfg, index, pc, resp, gen, api>>

(***************************************************************************)
(* GET /api/stats (lines 360-377): the disk is scanned, then the           *)
(* aggregation query is sent and waited for, then the answer is built.     *)
(***************************************************************************)
\* The request arrives: stats() enters _scan_disk_stats on Path(DOC_ROOT)
\* (line 362).
StatsRequest ==
    /\ api.state = "none"
    /\ api' = [state |-> "scan", scan |-> NewScan(DOC_ROOT(cfg))]
    /\ UNCHANGED <<fs, cfg, index, pc, resp, gen, job, hist, queue>>

\* The scan goes on by one listing; when it is over its statistics are kept
\* and the aggregation query is sent (line 364).
StatsScan ==
    /\ api.state = "scan"
    /\ \E ord \in ListingOrders(fs) :
       LET s == _scan_disk_stats(api.scan, fs, ord)
       IN  api' = IF s.done THEN [state |-> "request", disk |-> s.stats]
                  ELSE [api EXCEPT !.scan = s]
    /\ UNCHANGED <<fs, cfg, index, pc, resp, gen, job, hist, queue>>

\* The query is answered with the report `idx` (lines 350-357) and stats()
\* returns (lines 368-377).
StatsAnswer(idx) ==
    /\ api.state = "request"
    /\ api' = [state |-> "answered", disk |-> api.disk, index |-> idx,
               out |-> stats_response(api.disk, idx)]
    /\ UNCHANGED <<fs, cfg, index, pc, resp, gen, job, hist, queue>>

\* The query raises (lines 365-366).
StatsIndexError ==
    /\ api.state = "request"
    /\ api' = [state |-> "answered", disk |-> api.disk, out |-> stats_error]
    /\ UNCHANGED <<fs, cfg, index, pc, resp, gen, job, hist, queue>>

Next ==
    \/ \E status \in Statuses : EnsureCheck(status)
    \/ EnsureBranch
    \/ \E status \in Statuses : EnsureCreate(status)
    \/ \E call \in {"exists", "create"} : EnsureSilent(call)
    \/ \E initial \in BOOLEAN : Initial(initial)
    \/ BatchNext
    \/ \E w \in Threads, readable \in BOOLEAN : JobStat(w, readable)
    \/ \E w \in Threads, readable \in BOOLEAN : JobHash(w, readable)
    \/ \E w \in Threads, request \in {"meta", "tika"} : JobTikaFail(w, request)
    \/ \E w \in Threads, answer \in TikaAnswers : JobMetaOk(w, answer)
    \/ \E w \in Threads, answer \in TikaAnswers : JobTikaOk(w, answer)
    \/ \E w \in Threads, applied \in BOOLEAN : JobUpsertFail(w, applied)
    \/ \E w \in Threads : JobUpsertOk(w)
    \/ \E w \in Threads : JobReturn(w)
    \/ \E watch \in BOOLEAN : AfterBatch(watch)
    \/ \E p \in Watched, kind \in {"created", "modified"} : WatchDispatch(p, kind)
    \/ Interrupt
    \/ ObserverStop
    \/ InterruptAgain
    \/ Join

Spec == Init /\ [][Next]_vars

\* ensure_index and the initial pass alone (or main() going past it), on
\* every tree of files at and over the threshold and under every
\* configuration, with every outcome of every request; what main() does
\* after the pass is one last step.
NextBatch ==
    \/ \E status \in Statuses : EnsureCheck(status)
    \/ EnsureBranch
    \/ \E status \in Statuses : EnsureCreate(status)
    \/ \E call \in {"exists", "create"} : EnsureSilent(call)
    \/ \E initial \in BOOLEAN : Initial(initial)
    \/ BatchNext
    \/ \E readable \in BOOLEAN : JobStat("batch", readable)
    \/ \E readable \in BOOLEAN : JobHash("batch", readable)
    \/ \E request \in {"meta", "tika"} : JobTikaFail("batch", request)
    \/ \E answer \in TikaAnswers : JobMetaOk("batch", answer)
    \/ \E answer \in TikaAnswers : JobTikaOk("batch", answer)
    \/ \E applied \in BOOLEAN : JobUpsertFail("batch", applied)
    \/ JobUpsertOk("batch")
    \/ JobReturn("batch")
    \/ \E watch \in BOOLEAN : AfterBatch(watch)

SpecBatch == Start(TreesOf(Sizes), Configs) /\ [][NextBatch]_vars

\* The reconciler alone, on every pair of reports.
InitStats ==
    /\ fs = << >>
    /\ cfg \in {c \in Configs : c.FILTER_LEVEL1 = {} /\ c.FILTER_LEVEL2 = {}
                                 /\ c.MAX_DOCS = 0}
    /\ index = {}
    /\ pc = "start"
    /\ resp = NoResp
    /\ gen = NewGen
    /\ job = [w \in Workers |-> IdleJob]
    /\ hist = NewHist
    /\ \E d \in CountReports :
          api = [state |-> "request", disk |-> [root |-> ROOT] @@ d]
    /\ queue = << >>

NextStats ==
    \/ \E idx \in CountReports : StatsAnswer(idx)
    \/ StatsIndexError

SpecStats == InitStats /\ [][NextStats]_vars

\* The reconciler on the model's trees, the missing root included.
NextScan ==
    \/ StatsRequest
    \/ StatsScan
    \/ \E idx \in CountReports : StatsAnswer(idx)
    \/ StatsIndexError

SpecScan == Start(TreesOf(Sizes), {NoFilter}) /\ [][NextScan]_vars

\* A run with --watch, with the initial pass or without it, in which both
\* services answer every request with success and every file can be read,
\* on a tree that grows, for as long as nobody interrupts it. The program's
\* threads keep running; the file system is free to act or not.
\* The tree the run starts on: no root yet, a root that holds no document,
\* or one document over the size threshold. The files created during the
\* run: an eligible one in a new category, one in a new sub-directory of
\* the directory of the document, one with another extension, one too
\* close to the root; each at the threshold.
WatchTrees ==
    {<< >>,
     (P_top :> [fill |-> 1, size |-> Threshold, mtime |-> 0]),
     (P_ok :> [fill |-> 1, size |-> Threshold + 1, mtime |-> 0])}

CreatedPaths == {P_other, P_sub, P_txt, P_shallow}

\* The steps of the program other than the batch loop's next(generator).
ProgramStepWatch ==
    \/ EnsureCheck(200)
    \/ EnsureBranch
    \/ \E initial \in BOOLEAN : Initial(initial)
    \/ \E w \in Threads : JobStat(w, TRUE)
    \/ \E w \in Threads : JobHash(w, TRUE)
    \/ \E w \in Threads, answer \in TikaAnswers : JobMetaOk(w, answer)
    \/ \E w \in Threads, answer \in TikaAnswers : JobTikaOk(w, answer)
    \/ \E w \in Threads : JobUpsertOk(w)
    \/ \E w \in Threads : JobReturn(w)
    \/ AfterBatch(TRUE)
    \/ Deliver

NextWatch ==
    \/ BatchNext
    \/ ProgramStepWatch
    \/ \E p \in CreatedPaths,
          body \in {[fill |-> 1, size |-> Threshold, mtime |-> 0]} :
          ObserverRunning /\ FsCreate(p, body)
    \/ \E p \in Watched : FsNotify(p)

\* The batch loop does not stay for ever at its head: BatchNext is enabled
\* exactly there, always changes the state, and no other step leaves the
\* loop's head, so this is weak fairness of BatchNext.
AtLoopHead == pc = "batch" /\ ~Active(job["batch"])

FairBatchNext == []<>~AtLoopHead

SpecWatch ==
    /\ Start(WatchTrees, {NoFilter})
    /\ [][NextWatch]_vars
    /\ WF_vars(ProgramStepWatch)
    /\ FairBatchNext

\* A whole run on a static tree, with every outcome of every request, the
\* events waiting in the observer's queue, and the operator's interrupts.
\* The program's threads keep running; events and interrupts may or may
\* not come.
RunTrees ==
    { << >>,
      (P_ok :> [fill |-> 1, size |-> Threshold, mtime |-> 0]),
      (P_ok :> [fill |-> 1, size |-> Threshold + 1, mtime |-> 0])
          @@ (P_other :> [fill |-> 1, size |-> Threshold, mtime |-> 0]),
      (P_txt :> [fill |-> 1, size |-> Threshold, mtime |-> 0])
          @@ (P_hidden :> [fill |-> 1, size |-> Threshold, mtime |-> 0]) }

\* The steps of the main thread other than the batch loop's
\* next(generator), up to the start of the observer or the return.
ProgramStepEnd ==
    \/ \E status \in Statuses : EnsureCheck(status)
    \/ EnsureBranch
    \/ \E status \in Statuses : EnsureCreate(status)
    \/ \E initial \in BOOLEAN : Initial(initial)
    \/ \E readable \in BOOLEAN : JobStat("batch", readable)
    \/ \E readable \in BOOLEAN : JobHash("batch", readable)
    \/ \E request \in {"meta", "tika"} : JobTikaFail("batch", request)
    \/ \E answer \in TikaAnswers : JobMetaOk("batch", answer)
    \/ \E answer \in TikaAnswers : JobTikaOk("batch", answer)
    \/ \E applied \in BOOLEAN : JobUpsertFail("batch", applied)
    \/ JobUpsertOk("batch")
    \/ JobReturn("batch")
    \/ \E watch \in BOOLEAN : AfterBatch(watch)

\* The run up to the return of main() or the start of its observer: the
\* main thread alone, taking its steps fairly.
SpecEnd ==
    /\ Start(TreesOf({Threshold}), Configs)
    /\ [][BatchNext \/ ProgramStepEnd]_vars
    /\ WF_vars(ProgramStepEnd)
    /\ FairBatchNext

\* The steps of the program, observer thread included, other than the
\* batch loop's next(generator).
ProgramStepRun ==
    \/ ProgramStepEnd
    \/ \E readable \in BOOLEAN : JobStat("watch", readable)
    \/ \E readable \in BOOLEAN : JobHash("watch", readable)
    \/ \E request \in {"meta", "tika"} : JobTikaFail("watch", request)
    \/ \E answer \in TikaAnswers : JobMetaOk("watch", answer)
    \/ \E answer \in TikaAnswers : JobTikaOk("watch", answer)
    \/ \E applied \in BOOLEAN : JobUpsertFail("watch", applied)
    \/ JobUpsertOk("watch")
    \/ JobReturn("watch")
    \/ Deliver
    \/ ObserverStop
    \/ Join

\* The paths the file system reports again during the run: a document
\* and its directory.
RunWatched == {P_ok, Parent(P_ok)}

NextRun ==
    \/ BatchNext
    \/ ProgramStepRun
    \/ \E p \in RunWatched : FsNotify(p)
    \/ Interrupt
    \/ InterruptAgain

SpecRun ==
    /\ Start(RunTrees,
             {c \in Configs : c.FILTER_LEVEL1 = {} /\ c.FILTER_LEVEL2 = {}})
    /\ [][NextRun]_vars
    /\ WF_vars(ProgramStepRun)
    /\ FairBatchNext

\* Two indexers at once on one index: a process of the program, from the
\* return of ensure_index on (its batch pass if it has one, then its
\* observer), and the observer thread of another process of the program,
\* which is already watching the same root. Within one process two
\* indexings never overlap: main() starts the observer after the batch
\* loop, and the observer thread handles one event at a time.
InitTwo ==
    /\ fs \in RunTrees
    /\ cfg = NoFilter
    /\ index = {}
    /\ pc = "ensured"
    /\ resp = NoResp
    /\ gen = NewGen
    /\ job = [w \in Workers |-> IdleJob]
    /\ hist = NewHist
    /\ api = NoRequest
    /\ queue = << >>

\* The other process's observer thread calls the handler for an event.
OtherWatcher(src_path) ==
    /\ ~Active(job["other"])
    /\ on_event("other", src_path, IsDir(src_path, fs))
    /\ UNCHANGED <<fs, cfg, index, pc, resp, gen, hist, api, queue>>

NextTwo ==
    \/ \E initial \in BOOLEAN : Initial(initial)
    \/ BatchNext
    \/ AfterBatch(TRUE)
    \/ \E p \in Watched, kind \in {"created", "modified"} : WatchDispatch(p, kind)
    \/ \E p \in Watched : OtherWatcher(p)
    \/ \E w \in Workers, readable \in BOOLEAN : JobStat(w, readable)
    \/ \E w \in Workers, readable \in BOOLEAN : JobHash(w, readable)
    \/ \E w \in Workers, request \in {"meta", "tika"} : JobTikaFail(w, request)
    \/ \E w \in Workers, answer \in TikaAnswers : JobMetaOk(w, answer)
    \/ \E w \in Workers, answer \in TikaAnswers : JobTikaOk(w, answer)
    \/ \E w \in Workers, applied \in BOOLEAN : JobUpsertFail(w, applied)
    \/ \E w \in Workers : JobUpsertOk(w)
    \/ \E w \in Workers : JobReturn(w)

SpecTwo == InitTwo /\ [][NextTwo]_vars

\* A run with the initial pass and --watch that nobody interrupts, on a
\* tree that grows from the moment the process has started: during
\* ensure_index's successors (the batch loop, the start of the observer)
\* as well as under the running observer. Both services answer every
\* request with success and every file can be read.
ProgramStepGrow ==
    \/ EnsureCheck(200)
    \/ EnsureBranch
    \/ Initial(TRUE)
    \/ \E w \in Threads : JobStat(w, TRUE)
    \/ \E w \in Threads : JobHash(w, TRUE)
    \/ \E w \in Threads, answer \in TikaAnswers : JobMetaOk(w, answer)
    \/ \E w \in Threads, answer \in TikaAnswers : JobTikaOk(w, answer)
    \/ \E w \in Threads : JobUpsertOk(w)
    \/ \E w \in Threads : JobReturn(w)
    \/ AfterBatch(TRUE)
    \/ Deliver

NextGrow ==
    \/ BatchNext
    \/ ProgramStepGrow
    \/ \E p \in CreatedPaths,
          body \in {[fill |-> 1, size |-> Threshold, mtime |-> 0]} :
          FsCreate(p, body)
    \/ \E p \in CreatedPaths : FsNotify(p)

SpecGrow ==
    /\ Start(WatchTrees, {NoFilter})
    /\ [][NextGrow]_vars
    /\ WF_vars(ProgramStepGrow)
    /\ FairBatchNext

\* A run on a static tree, from an empty index, with no allow-list and no
\* cap, every file readable and every request answered with success; once
\* its initial pass is complete, /api/stats is asked, and asked again.
\* The two programs are given the same DOC_ROOT, or none: then the API
\* takes its default, which is ROOT or another directory. That other
\* directory may hold a document of its own.
PassConfigs ==
    { NoFilter,
      [NoFilter EXCEPT !.DOC_ROOT = Unset, !.API_DEFAULT = ROOT],
      [NoFilter EXCEPT !.DOC_ROOT = Unset, !.API_DEFAULT = OTHER_ROOT] }

PassTrees ==
    TreesOf(Sizes) \cup
    { t @@ (OTHER_ROOT \o <<DirA, DirB, F_pdf>>
                :> [fill |-> 1, size |-> Threshold, mtime |-> 0]) :
        t \in {u \in TreesOf(Sizes) : Cardinality(DOMAIN u) < MaxFiles} }

\* GET /api/stats arrives once the pass is over: the batch loop has been
\* left at the end of its generator.
StatsQuery ==
    /\ gen.done
    /\ pc \in {"after_batch", "watching", "exited"}
    /\ StatsRequest

\* The index service answers the aggregation query on the records it holds
\* when the query reaches it.
StatsFetch == StatsAnswer(_fetch_index_stats(index))

\* The answer has been sent; the next request can come.
StatsDone ==
    /\ api.state = "answered"
    /\ api' = NoRequest
    /\ UNCHANGED <<fs, cfg, index, pc, resp, gen, job, hist, queue>>

NextPass ==
    \/ \E status \in {200, 404} : EnsureCheck(status)
    \/ EnsureBranch
    \/ EnsureCreate(200)
    \/ \E initial \in BOOLEAN : Initial(initial)
    \/ BatchNext
    \/ JobStat("batch", TRUE)
    \/ JobHash("batch", TRUE)
    \/ \E answer \in TikaAnswers : JobMetaOk("batch", answer)
    \/ \E answer \in TikaAnswers : JobTikaOk("batch", answer)
    \/ JobUpsertOk("batch")
    \/ JobReturn("batch")
    \/ \E watch \in BOOLEAN : AfterBatch(watch)
    \/ StatsQuery
    \/ StatsScan
    \/ StatsFetch
    \/ StatsIndexError
    \/ StatsDone

SpecPass == Start(PassTrees, PassConfigs) /\ [][NextPass]_vars

\* A run with the initial pass and --watch on a tree whose files are
\* rewritten: an existing file gets the bytes of `body`, and the time of
\* the write as its modification time (times are counted in writes). The
\* new content replaces the old in one step, as a rename over the file
\* does, so p.stat() and the reads of compute_sha256 each see the old file
\* or the new one, and not always the same. The emitter reports the
\* modification when the observer runs; nothing reports an earlier one.
FsWrite(p, body) ==
    /\ pc \in {"ensured", "batch", "after_batch", "watching", "interrupted"}
    /\ p \in DOMAIN fs
    /\ fs[p].mtime < MaxWrites
    /\ Len(queue) < MaxQueue
    /\ fs' = [fs EXCEPT ![p] = [body EXCEPT !.mtime = fs[p].mtime + 1]]
    /\ IF ObserverRunning
       THEN /\ queue' = Append(queue, FileEvent(p, "modified", FALSE))
            /\ hist' = Arrived([hist EXCEPT !.reported = @ \cup {p}])
       ELSE UNCHANGED <<queue, hist>>
    /\ UNCHANGED <<cfg, index, pc, resp, gen, job, api>>

NextEdit ==
    \/ BatchNext
    \/ ProgramStepGrow
    \/ \E p \in Paths, body \in FileBodies : FsWrite(p, body)
    \/ \E p \in RunWatched : FsNotify(p)

SpecEdit == Start(RunTrees, {NoFilter}) /\ [][NextEdit]_vars

\* The program run again and again on a static tree and one index: every
\* run with or without its pass and its observer, with every outcome of
\* every request, events and interrupts.
AgainTrees ==
    { (P_ok :> [fill |-> 1, size |-> Threshold, mtime |-> 0]),
      (P_ok :> [fill |-> 1, size |-> Threshold + 1, mtime |-> 0])
          @@ (P_other :> [fill |-> 1, size |-> Threshold, mtime |-> 0]) }

SpecAgain == Start(AgainTrees, {NoFilter}) /\ [][Next \/ Restart]_vars

\* The whole program for several values of MAX_OCR_MB, on one document of
\* either content, at the extraction threshold or one byte over it, alone
\* or with a second document in another category. An empty file has one
\* content.
BytesBodies(fills, max_ocr_mb) ==
    {b \in [fill : fills, size : {max_ocr_mb * MB, max_ocr_mb * MB + 1},
            mtime : {0}] : b.size = 0 => b.fill = 1}

BytesTrees(max_ocr_mb) ==
    {<< >>}
      \cup {(P_ok :> b) : b \in BytesBodies({1, 2}, max_ocr_mb)}
      \cup {(P_ok :> b) @@ (P_other :> o) :
               b \in BytesBodies({1, 2}, max_ocr_mb),
               o \in BytesBodies({1}, max_ocr_mb)}

SpecBytes ==
    /\ \E m \in {0, 1, MAX_OCR_MB_DEFAULT} :
          Start(BytesTrees(m), {[NoFilter EXCEPT !.MAX_OCR_MB = m]})
    /\ [][Next]_vars

\* The initial pass under document caps up to one more than the eligible
\* files of the tree, which holds up to three of them and a file the pass
\* leaves out.
\* Each of them has its own content: the first at the extraction threshold,
\* the others over it.
CapBody(p) ==
    [fill |-> 1, mtime |-> 0,
     size |-> Threshold + (CHOOSE i \in 0..3 : <<P_ok, P_sub, P_other, P_lock>>[i + 1] = p)]

SpecCap ==
    /\ Start({[p \in D |-> CapBody(p)] :
                 D \in SUBSET {P_ok, P_sub, P_other, P_lock}},
             {[NoFilter EXCEPT !.MAX_DOCS = n] : n \in 0..4})
    /\ [][NextBatch]_vars

(***************************************************************************)
(* Properties.                                                             *)
(***************************************************************************)
\* The records a state holds: those of the index and those about to be sent.
Pending == {w \in Workers : job[w].pc = "upsert"}

Docs == {e.doc : e \in index} \cup {job[w].doc : w \in Pending}

\* The records of the index that carry the content hash h.
RecordsOf(idx, h) == {e \in idx : e.doc.id = h}

\* The worker w is about to send a record for a file the index already
\* holds, same bytes and same path: a second indexing of an unchanged file.
Reindexing(w, e) ==
    /\ job[w].pc = "upsert"
    /\ e \in index
    /\ e.doc.id = job[w].doc.id
    /\ e.doc.path = job[w].doc.path

\* C1 (as claimed): indexing an unchanged file a second time leaves exactly
\* one record for it, with the id, the title and the text content the first
\* indexing gave, whatever the extraction service answered.
C1_Idempotent_AnyExtraction ==
    [][\A w \in Workers : \A e \in index :
          Reindexing(w, e) =>
              /\ Cardinality(RecordsOf(index', e.doc.id)) = 1
              /\ \A n \in RecordsOf(index', e.doc.id) :
                    /\ n.doc.id = e.doc.id
                    /\ n.doc.title = e.doc.title
                    /\ n.doc.content = e.doc.content]_vars

\* The record holds what build_doc gives without an extraction result.
TitleOnly(doc) ==
    /\ doc.content = << >>
    /\ doc.media_type = << >>
    /\ doc.title = Stem(doc.file_name)

\* C1 (amended): indexing an unchanged file a second time, in a second
\* batch pass or on a watch event, leaves exactly one record for it, with
\* the same id; the record the index holds after the second write has the
\* title and text content of the one it held before when the extraction
\* had the same outcome both times (the same answer, a failure, or no
\* extraction); and when the second extraction failed or was skipped, the
\* record is the title-only one, whatever the first had stored.
C1_Idempotent_SameExtraction ==
    [][\A w \in Workers : \A e \in index :
          Reindexing(w, e) =>
              /\ Cardinality(RecordsOf(index', e.doc.id)) = 1
              /\ \A n \in RecordsOf(index', e.doc.id) :
                    /\ n.doc.id = e.doc.id
                    /\ n.doc.path = e.doc.path
                    /\ n.extract = e.extract =>
                          /\ n.doc.title = e.doc.title
                          /\ n.doc.content = e.doc.content
                    /\ n.extract.kind \in {"failed", "skipped"} => TitleOnly(n.doc)]_vars

\* The batch pass of a second run has re-sent the record of a file whose
\* record the index held, under the same id, when the run started, and has
\* built it from an answer of the extraction service.
C1_Witness ==
    /\ hist.runs = 2
    /\ job["batch"].pc = "done"
    /\ job["batch"].result = "ok"
    /\ \E e \in index :
          /\ e.doc.path = job["batch"].path
          /\ e.key \in hist.kept
          /\ e.key \in hist.stored
          /\ e.extract.kind = "answered"
          /\ Cardinality(RecordsOf(index, e.doc.id)) = 1

\* C2: byte-identical files get the same record identifier, whatever their
\* names, paths, categories and trigger, files with different bytes get
\* different ones, and a record is stored under its identifier.
SameBytes(f, g) == f.size = g.size /\ (f.size = 0 \/ f.fill = g.fill)

C2_IdIsContent ==
    /\ \A d1 \in Docs, d2 \in Docs :
          SameBytes(fs[d1.path], fs[d2.path]) <=> d1.id = d2.id
    /\ \A e \in index : e.key = e.doc.id
    /\ \A w \in Pending : doc_id(job[w].doc) = job[w].doc.id

\* The watcher is about to send, for a file of another name and category,
\* the identifier under which the batch pass stored a byte-identical file.
C2_Witness ==
    /\ job["watch"].pc = "upsert"
    /\ \E e \in index :
          /\ e.doc.id = job["watch"].doc.id
          /\ e.doc.id \in hist.stored
          /\ e.doc.path # job["watch"].doc.path
          /\ e.doc.file_name # job["watch"].doc.file_name
          /\ e.doc.level1 # job["watch"].doc.level1

\* C3: the index never holds a record of a hidden file or of an office
\* lock file.
HiddenOrLock(file_path) ==
    \/ \E i \in 1..Len(file_path) : file_path[i][1] = "."
    \/ SubSeq(Name(file_path), 1, 2) = <<"~", "$">>

C3_NoHiddenRecord == \A e \in index : ~HiddenOrLock(e.doc.path)

\* C4: a file with fewer than three segments below the root is never
\* indexed, and a record's two categories are the first two segments of
\* its path below the root, whether the batch pass or an event built it.
RelParts(file_path) == SubSeq(file_path, Len(ROOT) + 1, Len(file_path))

C4_DepthRule ==
    /\ \A d \in Docs :
          /\ Len(RelParts(d.path)) >= 3
          /\ d.level1 = RelParts(d.path)[1]
          /\ d.level2 = RelParts(d.path)[2]
    /\ \A w \in Workers :
          job[w].pc \in {"stat", "hash", "tika", "text", "upsert"} =>
              /\ Len(RelParts(job[w].payload.path)) >= 3
              /\ job[w].payload.level1 = RelParts(job[w].payload.path)[1]
              /\ job[w].payload.level2 = RelParts(job[w].payload.path)[2]

\* With a file one level deep on disk, the index holds the record of a
\* file four levels deep, under its first two segments.
C4_Witness ==
    /\ P_shallow \in DOMAIN fs
    /\ \E e \in index :
          /\ e.doc.path = P_other
          /\ e.doc.level1 = DirC
          /\ e.doc.level2 = DirD
    /\ pc = "watching"
    /\ job["watch"].pc = "idle"

\* C5: with an allow-list configured, the index never holds a record whose
\* category is outside it.
C5_AllowListed ==
    \A e \in index :
        /\ cfg.FILTER_LEVEL1 # {} => e.doc.level1 \in cfg.FILTER_LEVEL1
        /\ cfg.FILTER_LEVEL2 # {} => e.doc.level2 \in cfg.FILTER_LEVEL2

\* C6: a remote call is attempted at most 5 times; it reports failure only
\* when the 5th attempt has failed, a failed attempt before the 5th is
\* followed by another, and a call whose k-th attempt is the first to
\* succeed ends in success after exactly k attempts.
C6_RetryExhaustion ==
    [][\A w \in Workers :
          /\ job[w].pc \in {"tika", "text", "upsert"} => job[w].calls < 5
          /\ (job[w].pc \in {"tika", "text"} /\ job'[w].pc = "upsert") =>
                 IF job'[w].extract = "failed"
                 THEN job[w].calls + 1 = 5
                 ELSE job'[w].extract = "answered" /\ job[w].calls + 1 \in 1..5
          /\ (job[w].pc = "upsert" /\ job'[w].pc = "done") =>
                 /\ job'[w].calls = job[w].calls + 1
                 /\ job'[w].result = "failed" => job'[w].calls = 5
                 /\ job'[w].result = "ok" => job'[w].calls \in 1..5
          /\ (job[w].pc = "tika" /\ job'[w].pc = "text") =>
                 job'[w].calls = job[w].calls
          /\ (/\ \/ job[w].pc \in {"tika", "text"} /\ job'[w].pc = "tika"
                 \/ job[w].pc = "upsert" /\ job'[w].pc = "upsert"
              /\ job'[w] # job[w]) =>
                 /\ job'[w].calls = job[w].calls + 1
                 /\ job'[w].calls < 5]_vars

\* The upsert of a file of the batch pass has failed five times and the
\* call has reported the failure.
C6_Witness ==
    /\ job["batch"].pc = "done"
    /\ job["batch"].result = "failed"
    /\ job["batch"].calls = 5
    /\ hist.traffic

\* C7: a file larger than MAX_OCR_MB * 1048576 bytes is indexed without
\* any extraction request, with empty content, empty media type and its
\* file name's stem as title; a file of at most that size (that size
\* included) has its extraction attempted.
OverThreshold(size) == size > cfg.MAX_OCR_MB * 1048576

C7_SizeThreshold ==
    /\ \A w \in Workers :
          job[w].pc \in {"tika", "text"} => ~OverThreshold(job[w].stat.size)
    /\ \A w \in Pending :
          IF OverThreshold(job[w].doc.size_bytes)
          THEN job[w].extract = "skipped" /\ TitleOnly(job[w].doc)
          ELSE job[w].extract \in {"failed", "answered"}
    /\ \A e \in index :
          IF OverThreshold(e.doc.size_bytes)
          THEN e.extract.kind = "skipped" /\ TitleOnly(e.doc)
          ELSE e.extract.kind \in {"failed", "answered"}

\* With MAX_OCR_MB = 1 the index holds the title-only record of a file one
\* byte over the threshold, and the extracted record of a file exactly at
\* the threshold.
C7_Witness ==
    /\ cfg.MAX_OCR_MB = 1
    /\ \E e \in index :
          /\ e.doc.size_bytes = 1048576 + 1
          /\ e.extract.kind = "skipped"
          /\ e.doc.title = <<"f">>
          /\ e.doc.content = << >>
    /\ \E e \in index :
          /\ e.doc.size_bytes = 1048576
          /\ e.extract.kind = "answered"
          /\ e.doc.content = <<"x">>

\* C8: the batch pass attempts every file its generator yields, whatever
\* failed on the files before; once entered, it ends only when the
\* generator has ended; and every file it hashed and upserted is in the
\* index.
BatchEligible ==
    {f \in DOMAIN fs :
        /\ Len(RelParts(f)) >= 3
        /\ ~HiddenOrLock(f)
        /\ Lower(Suffix(Name(f))) \in ALLOW_EXTS
        /\ cfg.FILTER_LEVEL1 # {} => RelParts(f)[1] \in cfg.FILTER_LEVEL1
        /\ cfg.FILTER_LEVEL2 # {} => RelParts(f)[2] \in cfg.FILTER_LEVEL2}

SeqSet(q) == {q[i] : i \in 1..Len(q)}

C8_ContinueOnError ==
    /\ Len(hist.attempted) <= Len(hist.yielded)
    /\ Len(hist.yielded) <= Len(hist.attempted) + 1
    /\ hist.attempted = SubSeq(hist.yielded, 1, Len(hist.attempted))
    /\ Len(hist.yielded) > Len(hist.attempted) => job["batch"].pc = "stat"
    /\ pc = "aborted" => hist.yielded = << >>
    /\ ~gen.started => hist.yielded = << >>
    /\ (gen.started /\ pc # "batch") =>
          /\ gen.done
          /\ hist.attempted = hist.yielded
          /\ SeqSet(hist.attempted) \subseteq BatchEligible
          /\ cfg.MAX_DOCS = 0 => SeqSet(hist.attempted) = BatchEligible
    /\ \A h \in hist.stored : \E e \in index : e.key = h

\* The batch pass is over: its first file failed, its second is indexed.
C8_Witness ==
    /\ pc = "after_batch"
    /\ gen.done
    /\ Len(hist.attempted) = 2
    /\ compute_sha256(fs[hist.attempted[1]]) \notin hist.stored
    /\ compute_sha256(fs[hist.attempted[2]]) \in hist.stored
    /\ \E e \in index : e.doc.path = hist.attempted[2]

\* C9: the diff of /api/stats has the keys of both maps, each valued disk
\* minus index with a missing key counting 0, and total_missing is the disk
\* total minus the index total.
Count(m, k) == IF k \in DOMAIN m THEN m[k] ELSE 0

DiffOf(d, disk, idx) ==
    /\ DOMAIN d = (DOMAIN disk) \cup (DOMAIN idx)
    /\ \A k \in DOMAIN d : d[k] = Count(disk, k) - Count(idx, k)

C9_Reconciliation ==
    (api.state = "answered" /\ api.out.status = 200) =>
        /\ DiffOf(api.out.diff.by_level1_missing, api.disk.by_level1, api.index.by_level1)
        /\ DiffOf(api.out.diff.by_level2_missing, api.disk.by_level2, api.index.by_level2)
        /\ api.out.diff.total_missing = api.disk.total - api.index.total

\* Disk {A: 3, B: 2} against index {A: 2, B: 2} is answered {A: 1, B: 0}.
C9_Witness ==
    /\ api.state = "answered"
    /\ api.out.status = 200
    /\ api.disk.by_level1 = (DirA :> 3) @@ (DirB :> 2)
    /\ api.index.by_level1 = (DirA :> 2) @@ (DirB :> 2)
    /\ api.out.diff.by_level1_missing = (DirA :> 1) @@ (DirB :> 0)
    /\ api.out.diff.total_missing = 1

\* C10: no extraction or upsert request precedes ensure_index; on 200 no
\* create request is sent and the run proceeds; on 404 exactly one is sent
\* and the run proceeds only if it succeeds; on any other status of the
\* existence check the process aborts.
BeforeBatch(p) == p \in {"start", "checked", "create", "aborted", "blocked"}

C10_EnsureIndex ==
    [][/\ BeforeBatch(pc) => (~hist.traffic /\ index = {})
       /\ BeforeBatch(pc') => (~hist'.traffic /\ index' = {})
       /\ (pc' = "create" /\ pc # "create") => (pc = "checked" /\ resp = 404)
       /\ (pc' \in {"start", "checked"} /\ pc' # pc) => (pc = "start")
       /\ (pc = "checked" /\ resp = 200) => pc' = "ensured"
       /\ (pc = "checked" /\ resp = 404) => pc' = "create"
       /\ pc = "create" => pc' \in {"ensured", "aborted", "blocked"}
       /\ (pc = "checked" /\ resp \notin {200, 404}) => pc' = "aborted"]_vars

\* C11: as long as the observer runs, every file reported to it (created
\* after it started, or reported again) that has an allowed extension and
\* at least two category directories above it gets into the index under
\* its content hash, with no second batch pass; and the
\* index holds at most one record per content on disk, however many events
\* were delivered.
WatchEligible(p) ==
    /\ Lower(Suffix(Name(p))) \in ALLOW_EXTS
    /\ Len(RelParts(p)) >= 3

Indexed(p) ==
    /\ p \in DOMAIN fs
    /\ \E e \in index : e.key = compute_sha256(fs[p])

Contents == {compute_sha256(fs[p]) : p \in DOMAIN fs}

Waiting(p) ==
    \E i \in 1..Len(queue) : queue[i].src_path = p /\ ~queue[i].is_directory

C11_WatchIndexes ==
    /\ []<>(ObserverRunning =>
               \A p \in hist.reported : WatchEligible(p) => Indexed(p))
    /\ [](/\ Cardinality(index) <= Cardinality(Contents)
          /\ \A e1 \in index, e2 \in index : e1.key = e2.key => e1 = e2)

\* The index holds the one record of a file the batch pass never saw, and
\* another event for that file is still waiting.
C11_Witness ==
    /\ ObserverRunning
    /\ job["watch"].pc = "idle"
    /\ Cardinality(index) = 1
    /\ \E e \in index :
          /\ e.doc.path \notin SeqSet(hist.yielded)
          /\ e.doc.path \in hist.reported
          /\ Indexed(e.doc.path)
          /\ Waiting(e.doc.path)

\* C12: a step changes or adds only the record whose id is the content
\* hash of a file being upserted; every other record stays as it is, and
\* the set of record ids never shrinks.
Keys(idx) == {e.key : e \in idx}

C12_UpsertFrame ==
    [][/\ Keys(index) \subseteq Keys(index')
       /\ \A e \in index :
             e \in index' \/ \E w \in Pending : e.doc.id = job[w].doc.id
       /\ \A n \in index' :
             n \in index \/ \E w \in Pending : n.doc.id = job[w].doc.id]_vars

\* In a second run of the program an upsert has just succeeded while the
\* index held the record an earlier run made of a file of other content,
\* which is still there.
C12_Witness ==
    \E w \in Workers :
        /\ hist.runs = 2
        /\ job[w].pc = "done"
        /\ job[w].result = "ok"
        /\ \E e1 \in index, e2 \in index :
              /\ e1.key # e2.key
              /\ e1.doc.path = job[w].path
              /\ e2.doc.path # job[w].path
              /\ e2.key \in hist.kept
              /\ e2.key \notin hist.stored

\* C13: an indexing attempt ends with the complete new record visible
\* under the file's content hash, or ends in failure with the index exactly
\* as it was before the attempt.
RecordFields ==
    {"id", "path", "file_name", "level1", "level2", "title", "content",
     "media_type", "ext", "modified_at", "size_bytes", "sha256", "suggest"}

Visible(idx, doc) ==
    /\ DOMAIN doc = RecordFields
    /\ \E e \in idx : e.key = doc.sha256 /\ e.doc = doc

Ends(w) == job[w].pc = "upsert" /\ job'[w].pc = "done"

C13_AllOrNothing ==
    [][\A w \in Workers :
          Ends(w) =>
              IF job'[w].result = "ok"
              THEN Visible(index', job[w].doc)
              ELSE ~job'[w].changed]_vars

\* C14: once the interrupt has been received in watch mode no handler
\* starts for an event that arrived after it; a handler in progress ends
\* only by returning to the observer, its upsert done or failed; and
\* main() ends only when no handler is in progress.
HandlerRuns == Active(job["watch"])

Signalled == pc \in {"interrupted", "stopping", "exited", "killed"}

\* The head of the queue arrived after the interrupt was received.
HeadIsLate == queue # << >> /\ hist.late = Len(queue)

C14_GracefulStop ==
    [][/\ (Signalled /\ HeadIsLate) => ~(~HandlerRuns /\ HandlerRuns')
       /\ (HandlerRuns /\ ~HandlerRuns') =>
              (job["watch"].pc = "done"
                  /\ job["watch"].result \in {"ok", "failed"})
       /\ (pc \in {"interrupted", "stopping"} /\ pc' \in {"exited", "killed"}) =>
              ~HandlerRuns]_vars

\* C15: however the steps of a batch-triggered and a watch-triggered
\* indexing of the same file, or of two watch-triggered ones, interleave,
\* the index holds one record per
\* content hash, and every write leaves under the file's content hash
\* exactly the complete record of the attempt that sent it, the rest of the
\* index being as it was.
WrittenBy(w, idx, idx2) ==
    /\ job[w].pc = "upsert"
    /\ \E n \in idx2 :
          /\ n.key = job[w].sha256
          /\ n.doc = job[w].doc
          /\ DOMAIN n.doc = RecordFields
          /\ idx2 \ {n} = {e \in idx : e.key # n.key}

C15_Converges ==
    [][/\ \A h \in Keys(index') : Cardinality(RecordsOf(index', h)) = 1
       /\ index' # index => \E w \in Workers : WrittenBy(w, index, index')]_vars

\* The observers of two processes each hold a record for the same file,
\* built from different extraction outcomes, while the index holds the
\* record the batch pass of one of them stored.
C15_Witness ==
    /\ job["watch"].pc = "upsert"
    /\ job["other"].pc = "upsert"
    /\ job["watch"].doc.path = job["other"].doc.path
    /\ job["watch"].doc # job["other"].doc
    /\ \E e \in index :
          /\ e.key = job["watch"].sha256
          /\ e.key \in hist.stored
          /\ e.doc.path = job["watch"].doc.path

\* C16: the pipeline is never left waiting without end on a request the
\* remote service does not answer.
C16_NoIndefiniteWait == pc # "blocked"

\* C17: with no document root, /api/stats answers with empty disk
\* statistics and, for every category of the index, a diff of minus its
\* count; when the aggregation query fails the answer is the 502 error and
\* carries no statistics.
MinusOf(d, idx) ==
    /\ DOMAIN d = DOMAIN idx
    /\ \A k \in DOMAIN idx : d[k] = 0 - idx[k]

C17_ReconcilerErrors ==
    /\ []((api.state = "answered" /\ ~Exists(ROOT, fs) /\ api.out.status = 200) =>
            /\ api.out.disk.total = 0
            /\ DOMAIN api.out.disk.by_level1 = {}
            /\ DOMAIN api.out.disk.by_level2 = {}
            /\ api.out.diff.total_missing = 0 - api.index.total
            /\ MinusOf(api.out.diff.by_level1_missing, api.index.by_level1)
            /\ MinusOf(api.out.diff.by_level2_missing, api.index.by_level2))
    /\ [][StatsIndexError =>
              (api'.out.status = 502 /\ DOMAIN api'.out = {"status"})]_vars

\* The root is missing, the index counts files, and the answer is in.
C17_Witness ==
    /\ api.state = "answered"
    /\ api.out.status = 200
    /\ ~Exists(ROOT, fs)
    /\ api.index.total = 3
    /\ api.out.diff.total_missing = 0 - 3
    /\ DOMAIN api.out.diff.by_level1_missing = {DirA, DirB}

\* C18: when the extraction of a file within the size threshold fails on
\* its fifth attempt, build_doc does not fail: the record it returns has
\* empty content, empty media type and the stem of the file name as title,
\* and it goes to the upsert; such a record is what the index then holds.
\* (A handler cut by the end of its process has not had its 5 attempts.)
C18_ExtractionFallback ==
    /\ [][\A w \in Workers :
              (job[w].pc \in {"tika", "text"} /\ job'[w].pc # "cut") =>
                  /\ job'[w].pc \in {"tika", "text", "upsert"}
                  /\ (job'[w].pc = "upsert" /\ job'[w].extract = "failed") =>
                         (/\ job[w].calls + 1 = 5
                          /\ job[w].stat.size <= cfg.MAX_OCR_MB * 1048576
                          /\ job'[w].doc.content = << >>
                          /\ job'[w].doc.media_type = << >>
                          /\ job'[w].doc.title = Stem(job[w].payload.file_name)
                          /\ job'[w].doc.sha256 = job[w].sha256)]_vars
    /\ [](\A e \in index :
              e.extract.kind = "failed" =>
                  (e.doc.content = << >> /\ e.doc.media_type = << >>
                      /\ e.doc.title = Stem(e.doc.file_name)))

\* The batch pass has indexed, title only, a file whose extraction failed,
\* and has gone on to its second file.
C18_Witness ==
    /\ Len(hist.attempted) = 2
    /\ \E e \in index :
          /\ e.extract.kind = "failed"
          /\ e.doc.path = hist.attempted[1]
          /\ e.doc.size_bytes = cfg.MAX_OCR_MB * 1048576
          /\ e.doc.title = <<"f">>
          /\ e.doc.content = << >>
          /\ e.key \in hist.stored

\* C19: whatever the two services answer, the batch pass, once entered,
\* ends, and it ends at the end of the generator with no file in progress
\* (PassOver says that the generator has run and has ended); no file is
\* attempted twice, and no call of a file is attempted more than 5 times;
\* with watch mode off main then returns.
PassOver == gen.done /\ pc # "batch" /\ ~Active(job["batch"])

C19_BatchTerminates ==
    /\ (pc = "batch") ~> PassOver
    /\ (pc = "after_batch") ~> (pc \in {"watching", "exited", "aborted"})
    /\ [][/\ (pc = "batch" /\ pc' # "batch") =>
                 (pc' = "after_batch" /\ gen'.done /\ ~Active(job["batch"]))
          /\ (pc' = "batch" /\ pc # "batch") => (pc = "ensured" /\ ~gen.started)
          /\ AfterBatch(FALSE) => pc' = "exited"]_vars
    /\ [](/\ Cardinality(SeqSet(hist.attempted)) = Len(hist.attempted)
          /\ job["batch"].pc \in {"tika", "text", "upsert"} => job["batch"].calls < 5
          /\ job["batch"].pc = "done" => job["batch"].calls <= 5)

\* The pass is over on a tree of two documents with every request failed.
C19_Witness ==
    /\ pc = "after_batch"
    /\ gen.done
    /\ Len(hist.attempted) = 2
    /\ hist.traffic
    /\ index = {}

\* C20: with MAX_DOCS = N > 0 the generator yields at most N payloads, so
\* the pass attempts at most N files and the index gains at most N records,
\* and it yields N when that many files are eligible; with MAX_DOCS = 0 the
\* pass has, at the end of its generator (gen.done), been given every
\* eligible file exactly once.
Min(a, b) == IF a < b THEN a ELSE b

C20_DocumentCap ==
    /\ Cardinality(SeqSet(hist.yielded)) = Len(hist.yielded)
    /\ gen.yielded = Len(hist.yielded)
    /\ cfg.MAX_DOCS > 0 =>
          /\ Len(hist.yielded) <= cfg.MAX_DOCS
          /\ Len(hist.attempted) <= cfg.MAX_DOCS
          /\ Cardinality(hist.stored) <= cfg.MAX_DOCS
          /\ pc \in {"batch", "after_batch"} => Cardinality(index) <= cfg.MAX_DOCS
          /\ gen.done =>
                Len(hist.yielded) = Min(cfg.MAX_DOCS, Cardinality(BatchEligible))
    /\ (cfg.MAX_DOCS = 0 /\ gen.done) => SeqSet(hist.yielded) = BatchEligible
    /\ ~gen.started => (hist.yielded = << >> /\ index = {})

\* With a cap of two and three eligible files, the pass is over after two
\* files, both indexed.
C20_Witness ==
    /\ cfg.MAX_DOCS = 2
    /\ pc = "after_batch"
    /\ gen.done
    /\ Cardinality(BatchEligible) = 3
    /\ Len(hist.yielded) = 2
    /\ Len(hist.attempted) = 2
    /\ Cardinality(index) = 2

\* C21: with the initial pass and watch mode both on, every eligible file
\* created below the root at any moment after the process has started, in
\* the batch pass or after it, is eventually indexed, given that the
\* services succeed and nobody interrupts: from some moment on every such
\* file has its record.
C21_NoMissedFile ==
    <>[](\A p \in hist.created : WatchEligible(p) => Indexed(p))

\* C22: after a complete initial pass from an empty index, with no
\* allow-list, no cap, a static tree and every request succeeding, the
\* reconciler reports nothing missing: total_missing is 0 and the diff of
\* every category of either level is 0. As claimed, for every tree.
NothingMissing(diff) ==
    /\ diff.total_missing = 0
    /\ \A k \in DOMAIN diff.by_level1_missing : diff.by_level1_missing[k] = 0
    /\ \A k \in DOMAIN diff.by_level2_missing : diff.by_level2_missing[k] = 0

Reported == api.state = "answered" /\ api.out.status = 200

DistinctContents(files) ==
    \A f \in files, g \in files : f # g => ~SameBytes(fs[f], fs[g])

C23_OneRecordPerPath ==
    \A e1 \in index, e2 \in index : e1.doc.path = e2.doc.path => e1 = e2

====
